---- MODULE Spec2Model ----
(***************************************************************************)
(* A state-machine model of N2Window.js (the N2 viewer's floating windows):*)
(* N2Window, N2WindowDraggable and N2WindowResizable, the process-wide     *)
(* z-index counter, and the mouse handlers that drag and resize a window.  *)
(*                                                                         *)
(* Pixel quantities are integers.  A CSS length is a record (Px(n) or      *)
(* Auto); a string that the code takes apart (a class attribute, a theme   *)
(* name) is a sequence of tokens, so that the template literals and the    *)
(* regular expression of theme() are computed rather than assumed.         *)
(***************************************************************************)
EXTENDS Integers, Sequences, FiniteSets, TLC

\* ------------------------------------------------------------------ bounds

\* The registry counter is not incremented beyond this value.
MaxZIndex == 14

\* At most this many mousedowns on headers and resizers are delivered.
MaxMouseDowns == 2

\* ------------------------------------------------------- program constants

ZIndexStart == 10          \* static zIndex = 10
DefaultMinWidth == 200     \* constructor(..., minWidth = 200, ...)
DefaultMinHeight == 200    \* constructor(..., minHeight = 200)
DefaultMoveOffset == 15    \* move(event, offset = 15)
HeightAllowance == 2       \* sizeToContent: "+ 2"

\* The container rectangle read by _getPos (parentPos), in page coordinates.
ContainerLeft == 20
ContainerTop == 10
ContainerWidth == 1000
ContainerHeight == 800

\* window.innerWidth / window.innerHeight read by move().
InnerWidth == 1040
InnerHeight == 820

\* ------------------------------------------------------------ the windows

Win == {"w1", "w2"}
NoWin == "-"
Kinds == {"base", "draggable", "resizable"}

\* ------------------------------------------------------------- CSS values

Px(n) == [num |-> n, unit |-> "px"]
Auto == [num |-> 0, unit |-> "auto"]
IsPx(v) == v.unit = "px"

Sides == <<"top", "right", "bottom", "left", "width", "height">>

AutoGeom == [top |-> Auto, right |-> Auto, bottom |-> Auto,
             left |-> Auto, width |-> Auto, height |-> Auto]

\* style('transform', ...): no transform, or translate(x px, y px)
NoTransform == <<>>
Translate(x, y) == <<x, y>>
TransX(t) == IF t = NoTransform THEN 0 ELSE t[1]
TransY(t) == IF t = NoTransform THEN 0 ELSE t[2]

\* ---------------------------------------------------------------- strings

\* A class name or theme name is a sequence of tokens; Space separates the
\* class names of a class attribute.
ThemePrefix == "window-theme-"
Space == " "

\* The class list of div.window-contents in the cloned template.
TemplateContentsClasses == << <<"window-contents">>, <<ThemePrefix, "light">> >>

\* The title markup of the cloned template.
TemplateTitle == "Title"

VARIABLES
    zIndex,      \* N2Window.zIndex, the process-wide counter
    kind,        \* per window: "none" before construction, else its class
    attached,    \* per window: its element is in the document
    inactive,    \* per window: class 'window-inactive' on the window element
    zstyle,      \* per window: its z-index style
    geom,        \* per window: the styles top/right/bottom/left/width/height
    transform,   \* per window: its transform style
    min,         \* per window: this.min (resizable windows)
    titleDom,    \* per window: the html of the .window-title element
    classes,     \* per window: the class list of div.window-contents
    clickL,      \* per window: close button 'click' listener registered
    headerL,     \* per window: header 'mousedown' listener registered
    resizerL,    \* per window: the resizers whose 'mousedown' listener is registered
    surface,     \* the 'mousemove' and 'mouseup' listeners on d3.select(window)
    assigned,    \* history: every z-index value assigned so far
    downs,       \* history: the number of mousedowns handled so far
    dragged,     \* history: the windows whose header got a mousedown since the last mouseup
    resized,     \* history: the windows one of whose resizers got a mousedown since the last mouseup
    first,       \* history, per window: the pointer, the window's position and its styles at its first
                 \* header mousedown since the last mouseup; n is 0 without one, 1 after it,
                 \* 2 after further ones that all came where the pointer's last event left
                 \* it, 3 after one that came elsewhere
    last         \* history: the operation that produced this state

vars == <<zIndex, kind, attached, inactive, zstyle, geom, transform, min,
          titleDom, classes, clickL, headerL, resizerL, surface, assigned, downs, dragged, resized, first, last>>

winVars == <<kind, attached, inactive, titleDom, classes>>
stackVars == <<zIndex, zstyle, assigned>>
geomVars == <<geom, transform, min>>
listenerVars == <<clickL, headerL, resizerL, surface>>
pointerHist == <<downs, dragged, resized, first>>

\* ------------------------------------------------------------ the registry

\* bringToFront that writes the counter without incrementing it.
BringToFrontNoIncrement(z, counter, force) ==
    IF force \/ z < counter
    THEN [zIndex |-> counter, z |-> counter, wrote |-> TRUE]
    ELSE [zIndex |-> counter, z |-> z, wrote |-> FALSE]

\* bringToFront that acts only when forced.
BringToFrontOnlyForced(z, counter, force) ==
    IF force
    THEN [zIndex |-> counter + 1, z |-> counter + 1, wrote |-> TRUE]
    ELSE [zIndex |-> counter, z |-> z, wrote |-> FALSE]

\* bringToFront that also acts when the window is already at the counter.
BringToFrontAtOrBelow(z, counter, force) ==
    IF force \/ z <= counter
    THEN [zIndex |-> counter + 1, z |-> counter + 1, wrote |-> TRUE]
    ELSE [zIndex |-> counter, z |-> z, wrote |-> FALSE]

\* bringToFront that writes the style without storing the new counter.
BringToFrontStyleOnly(z, counter, force) ==
    IF force \/ z < counter
    THEN [zIndex |-> counter, z |-> counter + 1, wrote |-> TRUE]
    ELSE [zIndex |-> counter, z |-> z, wrote |-> FALSE]

\* bringToFront(force): the counter and the window's z-index afterwards.
\* z is the window's current z-index style, counter is N2Window.zIndex.
BringToFrontResult(z, counter, force) ==
    IF force \/ z < counter
    THEN [zIndex |-> counter + 1, z |-> counter + 1, wrote |-> TRUE]
    ELSE [zIndex |-> counter, z |-> z, wrote |-> FALSE]

\* ------------------------------------------------------------------ layout

\* The rendered box of an absolutely positioned element of the container,
\* from its styles: width/height win over the opposite offsets, left/top win
\* over right/bottom; an element with neither takes its natural size at the
\* container's origin.
NaturalWidth == 340
NaturalHeight == 220

RenderedWidth(g) == IF IsPx(g.width) THEN g.width.num ELSE IF IsPx(g.left) /\ IsPx(g.right) THEN ContainerWidth - g.left.num - g.right.num ELSE NaturalWidth
RenderedHeight(g) == IF IsPx(g.height) THEN g.height.num ELSE IF IsPx(g.top) /\ IsPx(g.bottom) THEN ContainerHeight - g.top.num - g.bottom.num ELSE NaturalHeight
RenderedLeft(g) == IF IsPx(g.left) THEN g.left.num ELSE IF IsPx(g.right) THEN ContainerWidth - g.right.num - RenderedWidth(g) ELSE 0
RenderedTop(g) == IF IsPx(g.top) THEN g.top.num ELSE IF IsPx(g.bottom) THEN ContainerHeight - g.bottom.num - RenderedHeight(g) ELSE 0

\* container.getBoundingClientRect()
ParentRect == [left |-> ContainerLeft, top |-> ContainerTop, right |-> ContainerLeft + ContainerWidth, bottom |-> ContainerTop + ContainerHeight, width |-> ContainerWidth, height |-> ContainerHeight]

ZeroRect == [left |-> 0, top |-> 0, right |-> 0, bottom |-> 0, width |-> 0, height |-> 0]

\* this.window.node().getBoundingClientRect(): the rendered box moved by the
\* transform; all zero for an element that is not rendered (removed from the
\* document, or not displayed).
BoxRect(g, t) == [left |-> ContainerLeft + RenderedLeft(g) + TransX(t), top |-> ContainerTop + RenderedTop(g) + TransY(t), right |-> ContainerLeft + RenderedLeft(g) + TransX(t) + RenderedWidth(g), bottom |-> ContainerTop + RenderedTop(g) + TransY(t) + RenderedHeight(g), width |-> RenderedWidth(g), height |-> RenderedHeight(g)]

ChildRect(g, t, rendered) == IF rendered THEN BoxRect(g, t) ELSE ZeroRect

\* _getPos(): offsets of the four sides from the container's sides.
GetPosLeftOfViewport(parentPos, childPos) == [top |-> childPos.top - parentPos.top, right |-> parentPos.right - childPos.right, bottom |-> parentPos.bottom - childPos.bottom, left |-> childPos.left, width |-> childPos.width, height |-> childPos.height, parentWidth |-> parentPos.width, parentHeight |-> parentPos.height]

GetPos(parentPos, childPos) == [top |-> childPos.top - parentPos.top, right |-> parentPos.right - childPos.right, bottom |-> parentPos.bottom - childPos.bottom, left |-> childPos.left - parentPos.left, width |-> childPos.width, height |-> childPos.height, parentWidth |-> parentPos.width, parentHeight |-> parentPos.height]

\* _setPos(newPos): all six styles are written, each as `${value}px`.
SetPosRightFromLeft(newPos) == [top |-> Px(newPos.top), right |-> Px(newPos.left + newPos.width), bottom |-> Px(newPos.bottom), left |-> Px(newPos.left), width |-> Px(newPos.width), height |-> Px(newPos.height)]

SetPos(newPos) == [top |-> Px(newPos.top), right |-> Px(newPos.right), bottom |-> Px(newPos.bottom), left |-> Px(newPos.left), width |-> Px(newPos.width), height |-> Px(newPos.height)]

\* ---------------------------------------------------------------- resizing

Handles == {"top", "top-right", "right", "bottom-right", "bottom", "bottom-left", "left", "top-left"}

\* name.split('-') that takes the right resizer for the bottom-right one.
DirsRightIsCorner(name) == CASE name = "top" -> <<"top">> [] name = "top-right" -> <<"top", "right">> [] name = "right" -> <<"bottom", "right">> [] name = "bottom-right" -> <<"bottom", "right">> [] name = "bottom" -> <<"bottom">> [] name = "bottom-left" -> <<"bottom", "left">> [] name = "left" -> <<"left">> [] name = "top-left" -> <<"top", "left">>

\* name.split('-')
Dirs(name) == CASE name = "top" -> <<"top">> [] name = "top-right" -> <<"top", "right">> [] name = "right" -> <<"right">> [] name = "bottom-right" -> <<"bottom", "right">> [] name = "bottom" -> <<"bottom">> [] name = "bottom-left" -> <<"bottom", "left">> [] name = "left" -> <<"left">> [] name = "top-left" -> <<"top", "left">>

\* dirVals with the sign of the right side turned around.
DirValsRightPositive(dir) == CASE dir = "top" -> [mult |-> 1, idx |-> 2, min |-> "height"] [] dir = "right" -> [mult |-> 1, idx |-> 1, min |-> "width"] [] dir = "bottom" -> [mult |-> -1, idx |-> 2, min |-> "height"] [] dir = "left" -> [mult |-> 1, idx |-> 1, min |-> "width"]

\* dirVals
DirVals(dir) == CASE dir = "top" -> [mult |-> 1, idx |-> 2, min |-> "height"] [] dir = "right" -> [mult |-> -1, idx |-> 1, min |-> "width"] [] dir = "bottom" -> [mult |-> -1, idx |-> 2, min |-> "height"] [] dir = "left" -> [mult |-> 1, idx |-> 1, min |-> "width"]

\* NewSideValue with the comparison against the limit turned around.
NewSideValueLimitReversed(dir, startSize, minSize, newPos) ==
    LET dv == DirVals(dir)
        dimLimit == startSize[dir] + startSize[dv.min] - minSize[dv.min]
        newVal == startSize[dir] + (newPos[dv.idx] * dv.mult)
    IN  IF newVal < dimLimit THEN dimLimit ELSE newVal

\* The body of the loop over dirs: the new offset of one side.
\* newPos is the pointer's displacement <<dx, dy>> since the mousedown.
NewSideValue(dir, startSize, minSize, newPos) == LET dv == DirVals(dir) dimLimit == startSize[dir] + startSize[dv.min] - minSize[dv.min] newVal == startSize[dir] + (newPos[dv.idx] * dv.mult) IN IF newVal > dimLimit THEN dimLimit ELSE newVal

RECURSIVE ApplyDirs(_, _, _, _, _)
ApplyDirs(dirs, newSize, startSize, minSize, newPos) == IF dirs = <<>> THEN newSize ELSE ApplyDirs(Tail(dirs), [newSize EXCEPT ![Head(dirs)] = NewSideValue(Head(dirs), startSize, minSize, newPos)], startSize, minSize, newPos)

\* The resize mousemove handler: the geometry handed to _setPos.
ResizeNewSize(dirs, startSize, minSize, newPos) == LET sided == ApplyDirs(dirs, startSize, startSize, minSize, newPos) IN [sided EXCEPT !.width = startSize.parentWidth - (sided.right + sided.left), !.height = startSize.parentHeight - (sided.top + sided.bottom)]

\* ------------------------------------------------------- theme and title

\* contents.attr('class'): the class names joined by spaces.
RECURSIVE ClassAttr(_)
ClassAttr(cl) ==
    IF cl = <<>> THEN <<>>
    ELSE IF Len(cl) = 1 THEN cl[1]
    ELSE cl[1] \o <<Space>> \o ClassAttr(Tail(cl))

\* The last token of the run of non-space tokens that starts at i.
RECURSIVE RunEnd(_, _)
RunEnd(s, i) ==
    IF i < Len(s) /\ s[i + 1] # Space THEN RunEnd(s, i + 1) ELSE i

\* classes.replace(/^.*(window-theme-\S+).*$/, "$1"): the greedy .* leaves the
\* last "window-theme-" that is followed by a non-space character; the whole
\* string is returned when nothing matches.
CurTheme(s) ==
    LET starts == {i \in 1..(Len(s) - 1) : s[i] = ThemePrefix /\ s[i + 1] # Space}
    IN  IF starts = {} THEN s
        ELSE LET i == CHOOSE n \in starts : \A m \in starts : m <= n
             IN  SubSeq(s, i, RunEnd(s, i))

\* `window-theme-${name}`
ThemeClass(name) == <<ThemePrefix>> \o name

\* d3's classArray: the names of a string of space-separated class names.
RECURSIVE ClassArray(_)
ClassArray(s) ==
    IF s = <<>> THEN <<>>
    ELSE IF Head(s) = Space THEN ClassArray(Tail(s))
    ELSE LET e == RunEnd(s, 1)
         IN  <<SubSeq(s, 1, e)>> \o ClassArray(SubSeq(s, e + 1, Len(s)))

SeqRange(q) == {q[i] : i \in 1..Len(q)}

\* selection.classed(names, false) and selection.classed(names, true)
ClassedOff(cl, names) == SelectSeq(cl, LAMBDA c : c \notin SeqRange(ClassArray(names)))

RECURSIVE AddClasses(_, _)
AddClasses(cl, names) ==
    IF names = <<>> THEN cl
    ELSE AddClasses(IF Head(names) \in SeqRange(cl) THEN cl ELSE Append(cl, Head(names)), Tail(names))

ClassedOn(cl, names) == AddClasses(cl, ClassArray(names))

\* theme(newTheme): newTheme is a token sequence, <<>> for '' and for no
\* argument (both are falsy).  The class list afterwards and the value returned.
RetThis == [tag |-> "this", val |-> <<>>]
RetUndefined == [tag |-> "undefined", val |-> <<>>]
RetStr(v) == [tag |-> "string", val |-> v]

ThemeResult(cl, newTheme) ==
    LET curTheme == CurTheme(ClassAttr(cl))
    IN  IF newTheme # <<>>
        THEN [classes |-> ClassedOn(ClassedOff(cl, ThemeClass(curTheme)), ThemeClass(newTheme)),
              ret |-> RetThis]
        ELSE [classes |-> cl, ret |-> RetStr(curTheme)]

\* title(newTitle): arg is <<>> for no argument (null), <<s>> for a string s.
\* The titles are plain text, which this._title.html(s) stores and
\* this._title.html() returns unchanged.
Truthy(arg) == arg # <<>> /\ arg[1] # ""

TitleResult(html, arg) ==
    IF Truthy(arg)
    THEN [titleDom |-> arg[1], ret |-> RetThis]
    ELSE [titleDom |-> html, ret |-> RetStr(<<html>>)]

\* ------------------------------------------------------------- set, setList

\* set(opt, val) on the part of a window that set can reach: 'title' and
\* 'theme' go to the accessors, any other name is a style of the window.
\* The styles modelled are the six geometry styles.
SetOne(ws, opt, val) ==
    CASE opt = "title" -> [ws EXCEPT !.titleDom = TitleResult(ws.titleDom, <<val>>).titleDom]
      [] opt = "theme" -> [ws EXCEPT !.classes = ThemeResult(ws.classes, val).classes]
      [] OTHER -> [ws EXCEPT !.geom = [ws.geom EXCEPT ![opt] = val]]

\* setList(options): options is the sequence of <<name, value>> entries.
RECURSIVE SetListResult(_, _)
SetListResult(ws, options) ==
    IF options = <<>> THEN ws
    ELSE SetListResult(SetOne(ws, Head(options)[1], Head(options)[2]), Tail(options))

\* sizeToContent(): the options it hands to setList.
SizeToContentOptions(contentWidth, contentHeight, headerHeight, footerHeight) ==
    LET totalHeight == contentHeight + headerHeight + footerHeight + HeightAllowance
    IN  << <<"width", Px(contentWidth)>>, <<"height", Px(totalHeight)>> >>

\* move(event, offset): the position handed to _setPos.
MovePos(pos, event, offset) ==
    LET h == IF 2 * event.clientX < InnerWidth
             THEN [pos EXCEPT !.left = event.pageX + offset,
                              !.right = (event.pageX + offset) + pos.width]
             ELSE [pos EXCEPT !.right = event.pageX - offset,
                              !.left = (event.pageX - offset) - pos.width]
    IN  IF 2 * event.clientY < InnerHeight
        THEN [h EXCEPT !.top = event.pageY + offset,
                       !.bottom = (event.pageY + offset) + h.height]
        ELSE [h EXCEPT !.bottom = event.pageY - offset,
                       !.top = (event.pageY - offset) - h.height]

\* ------------------------------------------------------ surface listeners

\* A closure registered on d3.select(window) by a mousedown handler: the drag
\* handlers capture self and dragStart; the resize handlers capture self, the
\* resizer's name (dirs), dragStart and startSize.
ZeroPos == GetPos(ZeroRect, ZeroRect)
NoListener == [kind |-> "none", win |-> NoWin, name |-> "", dragStart |-> <<0, 0>>, startSize |-> ZeroPos]
DragListener(w, p) == [kind |-> "drag", win |-> w, name |-> "", dragStart |-> p, startSize |-> ZeroPos]
ResizeListener(w, name, p, startSize) == [kind |-> "resize", win |-> w, name |-> name, dragStart |-> p, startSize |-> startSize]

\* w.on("mousemove", f).on("mouseup", g): one listener per event type; a new
\* one replaces the one registered before.
Registered(closure) == [move |-> closure, up |-> closure]
Unregistered == [move |-> NoListener, up |-> NoListener]

\* Removing only the mousemove listener.
RemoveMoveListenerOnly(s) == [s EXCEPT !.move = NoListener]

\* w.on("mousemove", null).on("mouseup", null)
RemoveListeners(s) == [s EXCEPT !.move = NoListener, !.up = NoListener]

\* ---------------------------------------------------------------- history

\* op: the operation; w: its window; arg: the argument of an accessor;
\* p: the pointer position of a mouse event; name: the resizer; ran: the
\* surface listener that ran ("drag", "resize", "none") or "setPos" when move
\* reached _setPos; ret: the value returned.
OpArg(op, w, arg, p, name, ran, ret) == [op |-> op, w |-> w, arg |-> arg, p |-> p, name |-> name, ran |-> ran, ret |-> ret]
Op(op, w, p, name, ran, ret) == OpArg(op, w, <<>>, p, name, ran, ret)
\* The arguments of move(event, offset), as recorded in the history.
EventArg(event, offset) == <<event.clientX, event.clientY, event.pageX, event.pageY, offset>>
NoFirst == [n |-> 0, p |-> <<0, 0>>, left |-> 0, top |-> 0, geom |-> AutoGeom]
NoPoint == <<>>

\* ------------------------------------------------------------------- Init

Init ==
    /\ zIndex = ZIndexStart
    /\ kind = [w \in Win |-> "none"]
    /\ attached = [w \in Win |-> FALSE]
    /\ inactive = [w \in Win |-> FALSE]
    /\ zstyle = [w \in Win |-> 0]
    /\ geom = [w \in Win |-> AutoGeom]
    /\ transform = [w \in Win |-> NoTransform]
    /\ min = [w \in Win |-> [width |-> 0, height |-> 0]]
    /\ titleDom = [w \in Win |-> ""]
    /\ classes = [w \in Win |-> <<>>]
    /\ clickL = [w \in Win |-> FALSE]
    /\ headerL = [w \in Win |-> FALSE]
    /\ resizerL = [w \in Win |-> {}]
    /\ surface = Unregistered
    /\ assigned = {}
    /\ downs = 0
    /\ dragged = {}
    /\ resized = {}
    /\ first = [w \in Win |-> NoFirst]
    /\ last = Op("init", NoWin, NoPoint, "", "none", RetUndefined)

\* ---------------------------------------------------------------- helpers

\* The element is rendered: in the document and not 'window-inactive'.
Displayed(w) == attached[w] /\ ~inactive[w]

\* this._getPos() of window w in the current state.
Measure(w) == GetPos(ParentRect, ChildRect(geom[w], transform[w], Displayed(w)))

\* bringToFront that increments the counter and leaves the window's style.
CallBringToFrontKeepsStyle(w, force) ==
    LET r == BringToFrontResult(zstyle[w], zIndex, force)
    IN  /\ r.wrote => zIndex < MaxZIndex
        /\ zIndex' = r.zIndex
        /\ zstyle' = zstyle
        /\ assigned' = IF r.wrote THEN assigned \cup {r.z} ELSE assigned

\* The effect of this.bringToFront(force) on the registry and on w.
CallBringToFront(w, force) ==
    LET r == BringToFrontResult(zstyle[w], zIndex, force)
    IN  /\ r.wrote => zIndex < MaxZIndex
        /\ zIndex' = r.zIndex
        /\ zstyle' = [zstyle EXCEPT ![w] = r.z]
        /\ assigned' = IF r.wrote THEN assigned \cup {r.z} ELSE assigned

\* ------------------------------------------------------------ operations

\* new N2Window / N2WindowDraggable / N2WindowResizable(newId, cloneId,
\* minWidth, minHeight): the clone of the template, the close button's click
\* handler, bringToFront(true), then _setupDrag and _setupResizers.
Construct(w, k, minSize) ==
    /\ UNCHANGED pointerHist
    /\ kind[w] = "none"
    /\ kind' = [kind EXCEPT ![w] = k]
    /\ attached' = [attached EXCEPT ![w] = TRUE]
    /\ inactive' = [inactive EXCEPT ![w] = TRUE]
    /\ titleDom' = [titleDom EXCEPT ![w] = TemplateTitle]
    /\ classes' = [classes EXCEPT ![w] = TemplateContentsClasses]
    /\ clickL' = [clickL EXCEPT ![w] = TRUE]
    /\ CallBringToFront(w, TRUE)
    /\ headerL' = [headerL EXCEPT ![w] = k \in {"draggable", "resizable"}]
    /\ min' = [min EXCEPT ![w] = IF k = "resizable" THEN minSize ELSE @]
    /\ resizerL' = [resizerL EXCEPT ![w] = IF k = "resizable" THEN Handles ELSE {}]
    /\ UNCHANGED <<geom, transform, surface>>
    /\ last' = Op("construct", w, NoPoint, "", "none", RetThis)

\* bringToFront(force)
BringToFront(w, force) ==
    /\ UNCHANGED pointerHist
    /\ attached[w]
    /\ CallBringToFront(w, force)
    /\ UNCHANGED <<winVars, geomVars, listenerVars>>
    /\ last' = Op(IF force THEN "bringToFrontForce" ELSE "bringToFront", w, NoPoint, "", "none", RetThis)

\* show(): this.hidden = false, whose setter calls bringToFront() first.
Show(w) ==
    /\ UNCHANGED pointerHist
    /\ attached[w]
    /\ CallBringToFront(w, FALSE)
    /\ inactive' = [inactive EXCEPT ![w] = FALSE]
    /\ UNCHANGED <<kind, attached, titleDom, classes, geomVars, listenerVars>>
    /\ last' = Op("show", w, NoPoint, "", "none", RetThis)

\* hide(): this.hidden = true
Hide(w) ==
    /\ UNCHANGED pointerHist
    /\ attached[w]
    /\ inactive' = [inactive EXCEPT ![w] = TRUE]
    /\ UNCHANGED <<kind, attached, titleDom, classes, stackVars, geomVars, listenerVars>>
    /\ last' = Op("hide", w, NoPoint, "", "none", RetThis)

\* title(newTitle)
Title(w, arg) ==
    /\ UNCHANGED pointerHist
    /\ attached[w]
    /\ LET r == TitleResult(titleDom[w], arg)
       IN  /\ titleDom' = [titleDom EXCEPT ![w] = r.titleDom]
           /\ last' = OpArg("title", w, arg, NoPoint, "", "none", r.ret)
    /\ UNCHANGED <<kind, attached, inactive, classes, stackVars, geomVars, listenerVars>>

\* theme(newTheme)
Theme(w, newTheme) ==
    /\ UNCHANGED pointerHist
    /\ attached[w]
    /\ LET r == ThemeResult(classes[w], newTheme)
       IN  /\ classes' = [classes EXCEPT ![w] = r.classes]
           /\ last' = OpArg("theme", w, newTheme, NoPoint, "", "none", r.ret)
    /\ UNCHANGED <<kind, attached, inactive, titleDom, stackVars, geomVars, listenerVars>>

\* setList(options), and set(opt, val) as the list of one entry
SetList(w, options) ==
    /\ UNCHANGED pointerHist
    /\ attached[w]
    /\ LET ws == SetListResult([geom |-> geom[w], titleDom |-> titleDom[w], classes |-> classes[w]], options)
       IN  /\ geom' = [geom EXCEPT ![w] = ws.geom]
           /\ titleDom' = [titleDom EXCEPT ![w] = ws.titleDom]
           /\ classes' = [classes EXCEPT ![w] = ws.classes]
    /\ UNCHANGED <<kind, attached, inactive, transform, min, stackVars, listenerVars>>
    /\ last' = Op("setList", w, NoPoint, "", "none", RetThis)

\* sizeToContent(): the scroll sizes of body, header and footer are inputs.
SizeToContent(w, contentWidth, contentHeight, headerHeight, footerHeight) ==
    /\ UNCHANGED pointerHist
    /\ attached[w]
    /\ LET ws == SetListResult([geom |-> geom[w], titleDom |-> titleDom[w], classes |-> classes[w]],
                               SizeToContentOptions(contentWidth, contentHeight, headerHeight, footerHeight))
       IN  geom' = [geom EXCEPT ![w] = ws.geom]
    /\ UNCHANGED <<winVars, transform, min, stackVars, listenerVars>>
    /\ last' = Op("sizeToContent", w, NoPoint, "", "none", RetThis)

\* set minWidth(val) / set minHeight(val)
SetMin(w, dim, val) ==
    /\ UNCHANGED pointerHist
    /\ attached[w]
    /\ kind[w] = "resizable"
    /\ min' = [min EXCEPT ![w][dim] = val]
    /\ UNCHANGED <<winVars, geom, transform, stackVars, listenerVars>>
    /\ last' = Op("setMin", w, NoPoint, "", "none", RetUndefined)

\* move(event, offset): this.active is a property that N2Window.js reads and
\* never defines; its value is the caller's (undefined, so falsy, unless a
\* subclass or the caller has set it).
Move(w, event, offset, active) ==
    /\ UNCHANGED pointerHist
    /\ attached[w]
    /\ IF ~active
       THEN /\ UNCHANGED geom
            /\ last' = OpArg("move", w, EventArg(event, offset), NoPoint, "", "none", RetUndefined)
       ELSE /\ geom' = [geom EXCEPT ![w] = SetPos(MovePos(Measure(w), event, offset))]
            /\ last' = OpArg("move", w, EventArg(event, offset), <<event.pageX, event.pageY>>, "", "setPos", RetThis)
    /\ UNCHANGED <<winVars, transform, min, stackVars, listenerVars>>

\* close(): N2WindowDraggable.close removes the header's mousedown handler and
\* calls N2Window.close, which removes the click handler and the element;
\* N2WindowResizable inherits N2WindowDraggable.close.
CloseResult(k, listeners) ==
    [listeners EXCEPT !.header = IF k \in {"draggable", "resizable"} THEN FALSE ELSE @,
                      !.click = FALSE]

DoClose(w) ==
    /\ LET r == CloseResult(kind[w], [click |-> clickL[w], header |-> headerL[w], resizers |-> resizerL[w], surface |-> surface])
       IN  /\ clickL' = [clickL EXCEPT ![w] = r.click]
           /\ headerL' = [headerL EXCEPT ![w] = r.header]
           /\ resizerL' = [resizerL EXCEPT ![w] = r.resizers]
           /\ surface' = r.surface
    /\ attached' = [attached EXCEPT ![w] = FALSE]
    /\ UNCHANGED <<kind, inactive, titleDom, classes, stackVars, geomVars>>

Close(w) ==
    /\ UNCHANGED pointerHist
    /\ attached[w]
    /\ DoClose(w)
    /\ last' = Op("close", w, NoPoint, "", "none", RetUndefined)

\* A click on the close button: e => { self.close(); }
ClickCloseButton(w) ==
    /\ UNCHANGED pointerHist
    /\ clickL[w]
    /\ Displayed(w)
    /\ DoClose(w)
    /\ last' = Op("close", w, NoPoint, "click", "none", RetUndefined)

\* ----------------------------------------------------------- mouse events

\* newTrans / newPos: the pointer's displacement since the mousedown.
Delta(dragStart, p) == <<p[1] - dragStart[1], p[2] - dragStart[2]>>

\* The drag mousemove handler: the transform style it writes.
DragTransformAbsolute(dragStart, p) == Translate(p[1], p[2])

DragTransform(dragStart, p) == Translate(Delta(dragStart, p)[1], Delta(dragStart, p)[2])

\* mousedown on the header of a draggable window (_setupDrag).
HeaderMouseDown(w, p) ==
    /\ downs < MaxMouseDowns
    /\ downs' = downs + 1
    /\ dragged' = dragged \cup {w}
    /\ UNCHANGED resized
    /\ first' = [first EXCEPT ![w] =
                     IF @.n = 0
                     THEN [n |-> 1, p |-> p, left |-> RenderedLeft(geom[w]), top |-> RenderedTop(geom[w]), geom |-> geom[w]]
                     ELSE [@ EXCEPT !.n = IF @ < 3 /\ last.op \in {"headerDown", "mousemove"} /\ last.p = p THEN 2 ELSE 3]]
    /\ headerL[w]
    /\ Displayed(w)
    /\ CallBringToFront(w, FALSE)
    /\ surface' = Registered(DragListener(w, p))
    /\ UNCHANGED <<winVars, geomVars, clickL, headerL, resizerL>>
    /\ last' = Op("headerDown", w, p, "", "none", RetUndefined)

\* mousedown on one of the eight resizers (_setupResizers): startSize is
\* measured before bringToFront.
ResizerMouseDown(w, name, p) ==
    /\ downs < MaxMouseDowns
    /\ downs' = downs + 1
    /\ UNCHANGED dragged
    /\ resized' = resized \cup {w}
    /\ UNCHANGED first
    /\ name \in resizerL[w]
    /\ Displayed(w)
    /\ CallBringToFront(w, FALSE)
    /\ surface' = Registered(ResizeListener(w, name, p, Measure(w)))
    /\ UNCHANGED <<winVars, geomVars, clickL, headerL, resizerL>>
    /\ last' = Op("resizerDown", w, p, name, "none", RetUndefined)

\* mousemove on the surface: the registered listener runs, if there is one.
MouseMove(p) ==
    LET c == surface.move
    IN  /\ CASE c.kind = "drag" ->
                  /\ transform' = [transform EXCEPT ![c.win] = DragTransform(c.dragStart, p)]
                  /\ UNCHANGED geom
             [] c.kind = "resize" ->
                  /\ geom' = [geom EXCEPT ![c.win] = SetPos(ResizeNewSize(Dirs(c.name), c.startSize, min[c.win], Delta(c.dragStart, p)))]
                  /\ UNCHANGED transform
             [] OTHER -> UNCHANGED <<geom, transform>>
        /\ UNCHANGED <<winVars, min, stackVars, listenerVars, pointerHist>>
        /\ last' = Op("mousemove", c.win, p, c.name, c.kind, RetUndefined)

\* mouseup on the surface: the drag listener commits the measured position,
\* clears the transform and removes both listeners; the resize listener only
\* removes both listeners.
MouseUp(p) ==
    LET c == surface.up
    IN  /\ CASE c.kind = "drag" ->
                  /\ geom' = [geom EXCEPT ![c.win] = SetPos(Measure(c.win))]
                  /\ transform' = [transform EXCEPT ![c.win] = NoTransform]
                  /\ surface' = RemoveListeners(surface)
             [] c.kind = "resize" ->
                  /\ surface' = RemoveListeners(surface)
                  /\ UNCHANGED <<geom, transform>>
             [] OTHER -> UNCHANGED <<geom, transform, surface>>
        /\ UNCHANGED <<winVars, min, stackVars, clickL, headerL, resizerL, downs>>
        /\ dragged' = {}
        /\ resized' = {}
        /\ first' = [w \in Win |-> NoFirst]
        /\ last' = Op("mouseup", c.win, p, c.name, c.kind, RetUndefined)

\* --------------------------------------------------------- specifications

\* Inputs.
MinSizes == {[width |-> DefaultMinWidth, height |-> DefaultMinHeight], [width |-> 320, height |-> 100]}
DownPoint == <<900, 400>>
MovePoints == {<<400, 300>>, <<850, 380>>, <<950, 420>>}

\* The options of wintest (window 3), and a window smaller than the minimum.
WintestOptions == << <<"width", Px(300)>>, <<"height", Px(300)>>, <<"top", Px(100)>>, <<"left", Px(700)>> >>
SmallOptions == << <<"width", Px(150)>>, <<"height", Px(120)>>, <<"top", Px(100)>>, <<"left", Px(10)>> >>

\* Resizing one resizable window by its eight handles.
NextResize ==
    \/ \E m \in MinSizes : Construct("w1", "resizable", m)
    \/ Show("w1")
    \/ \E o \in {WintestOptions, SmallOptions} : SetList("w1", o)
    \/ \E n \in Handles : ResizerMouseDown("w1", n, DownPoint)
    \/ \E p \in MovePoints : MouseMove(p)
    \/ MouseUp(DownPoint)

SpecResize == Init /\ [][NextResize]_vars

\* Stacking, visibility and closing of two windows of any class.
NextStack ==
    \/ \E w \in Win, k \in Kinds : Construct(w, k, [width |-> DefaultMinWidth, height |-> DefaultMinHeight])
    \/ \E w \in Win : Show(w)
    \/ \E w \in Win : Hide(w)
    \/ \E w \in Win, force \in BOOLEAN : BringToFront(w, force)
    \/ \E w \in Win : HeaderMouseDown(w, DownPoint)
    \/ \E w \in Win : ResizerMouseDown(w, "top-left", DownPoint)
    \/ MouseUp(DownPoint)
    \/ \E w \in Win : Close(w)
    \/ \E w \in Win : ClickCloseButton(w)

SpecStack == Init /\ [][NextStack]_vars

\* The accessors of two windows.
TitleArgs == {<<>>, <<"">>, <<"Draggable Window">>, <<"Resizable Window">>}
ThemeArgs == {<<>>, <<"dark">>, <<"light">>}
AccessorOptions ==
    { << <<"title", "Resizable Window">>, <<"top", Px(100)>> >>,
      << <<"theme", <<"dark">> >>, <<"title", "">> >> }

NextAccessors ==
    \/ \E w \in Win, k \in Kinds : Construct(w, k, [width |-> DefaultMinWidth, height |-> DefaultMinHeight])
    \/ \E w \in Win, a \in TitleArgs : Title(w, a)
    \/ \E w \in Win, t \in ThemeArgs : Theme(w, t)
    \/ \E w \in Win, o \in AccessorOptions : SetList(w, o)
    \/ \E w \in Win, d \in {"width", "height"}, v \in {DefaultMinWidth, 320} : SetMin(w, d, v)

SpecAccessors == Init /\ [][NextAccessors]_vars

\* Dragging one window, with a resizer, setList, hide and close in between.
UpPoints == {<<950, 420>>, <<400, 300>>}

NextDrag ==
    \/ \E k \in {"draggable", "resizable"} : Construct("w1", k, [width |-> DefaultMinWidth, height |-> DefaultMinHeight])
    \/ Show("w1")
    \/ Hide("w1")
    \/ SetList("w1", WintestOptions)
    \/ Close("w1")
    \/ \E p \in {DownPoint} \cup UpPoints : HeaderMouseDown("w1", p)
    \/ ResizerMouseDown("w1", "bottom-right", DownPoint)
    \/ \E p \in MovePoints : MouseMove(p)
    \/ \E p \in UpPoints : MouseUp(p)

SpecDrag == Init /\ [][NextDrag]_vars

\* move() next to the pointer, between setList, show/hide and a drag.
MoveEvents ==
    { [clientX |-> 400, clientY |-> 300, pageX |-> 400, pageY |-> 300],
      [clientX |-> 850, clientY |-> 380, pageX |-> 850, pageY |-> 1180],
      [clientX |-> 950, clientY |-> 600, pageX |-> 950, pageY |-> 600] }

NextMove ==
    \/ \E k \in Kinds : Construct("w1", k, [width |-> DefaultMinWidth, height |-> DefaultMinHeight])
    \/ Show("w1")
    \/ Hide("w1")
    \/ SetList("w1", WintestOptions)
    \/ \E e \in MoveEvents, active \in BOOLEAN : Move("w1", e, DefaultMoveOffset, active)
    \/ HeaderMouseDown("w1", DownPoint)
    \/ MouseMove(<<850, 380>>)
    \/ MouseUp(DownPoint)

SpecMove == Init /\ [][NextMove]_vars

\* Pointer events on two windows: drags and resizes that may start before the
\* previous one has ended.
NextPointer ==
    \/ \E w \in Win, k \in {"draggable", "resizable"} : Construct(w, k, [width |-> DefaultMinWidth, height |-> DefaultMinHeight])
    \/ \E w \in Win : Show(w)
    \/ \E w \in Win : HeaderMouseDown(w, DownPoint)
    \/ \E w \in Win : ResizerMouseDown(w, "bottom-right", DownPoint)
    \/ \E p \in UpPoints : MouseMove(p)
    \/ MouseUp(DownPoint)

SpecPointer == Init /\ [][NextPointer]_vars

\* Updates of one window's geometry: setList, sizeToContent, drags and
\* resizes. The scroll sizes sizeToContent reads are those of the content.
ContentWidths == {300, 320}
ContentHeight == 250
HeaderHeight == 30
FooterHeight == 18

NextGeometry ==
    \/ Construct("w1", "resizable", [width |-> DefaultMinWidth, height |-> DefaultMinHeight])
    \/ Show("w1")
    \/ SetList("w1", WintestOptions)
    \/ \E cw \in ContentWidths : SizeToContent("w1", cw, ContentHeight, HeaderHeight, FooterHeight)
    \/ HeaderMouseDown("w1", DownPoint)
    \/ \E n \in {"right", "top-left"} : ResizerMouseDown("w1", n, DownPoint)
    \/ \E p \in MovePoints : MouseMove(p)
    \/ MouseUp(DownPoint)

SpecGeometry == Init /\ [][NextGeometry]_vars

\* ------------------------------------------------------------------ claims

\* A resize step: the state right after the resize mousemove handler ran.
ResizeStepDone == last.op = "mousemove" /\ last.ran = "resize"

\* The resizer called name moves a side that bounds dimension dim.
ControlsDim(name, dim) == \E i \in 1..Len(Dirs(name)) : DirVals(Dirs(name)[i]).min = dim

\* C1 (as stated): every geometry applied by a resize step has
\* width >= minWidth and height >= minHeight, whatever the starting geometry.
C1_ResizeNeverBelowMinimum ==
    ResizeStepDone =>
        /\ geom[last.w].width.num >= min[last.w].width
        /\ geom[last.w].height.num >= min[last.w].height

\* C1 (amended): a resize step applies a dimension that is at least the
\* minimum whenever the handle moves a side bounding that dimension or the
\* dimension started at or above the minimum; a dimension the handle does not
\* control is applied as it was measured at the mousedown.
C1_ResizeHonoursMinimumWhereControlled ==
    ResizeStepDone =>
        \A dim \in {"width", "height"} :
            LET start == surface.move.startSize[dim]
                applied == geom[last.w][dim].num
            IN  /\ (ControlsDim(last.name, dim) \/ start >= min[last.w][dim]) => applied >= min[last.w][dim]
                /\ ~ControlsDim(last.name, dim) => applied = start

\* C1 witness: a resize step on a window that started narrower than the
\* minimum, by a handle that controls its width, left it at the minimum.
C1_Witness ==
    /\ ResizeStepDone
    /\ ControlsDim(last.name, "width")
    /\ surface.move.startSize.width < min[last.w].width
    /\ geom[last.w].width.num = min[last.w].width

\* The listeners that reference window w and are still registered.
HasListener(w) ==
    \/ clickL[w]
    \/ headerL[w]
    \/ resizerL[w] # {}
    \/ surface.move.win = w
    \/ surface.up.win = w

Closed(w) == kind[w] # "none" /\ ~attached[w]

\* C2: after close() no listener that references the window remains
\* registered, whatever its class and whatever it was doing.
C2_NoListenerAfterClose == \A w \in Win : Closed(w) => ~HasListener(w)

\* C3: bringToFront(true), called by the constructor or by the host, leaves
\* the window with a z-index greater than every z-index assigned before.
C3_ForcedFrontExceedsAllEarlier ==
    [][last'.op \in {"construct", "bringToFrontForce"} => \A z \in assigned : zstyle'[last'.w] > z]_vars

\* C3 witness: a forced bringToFront after three values had been assigned.
C3_Witness == last.op = "bringToFrontForce" /\ Cardinality(assigned) >= 4

ThemeClasses(cl) == {c \in SeqRange(cl) : Head(c) = ThemePrefix}

\* C5: after theme(B) the contents element carries window-theme-B and no
\* other theme class, and theme() returns the name of the theme class carried.
C5_ThemeReplacesTheOneThemeClass ==
    last.op = "theme" =>
        /\ last.arg # <<>> => ThemeClasses(classes[last.w]) = {ThemeClass(last.arg)}
        /\ last.ret.tag = "string" => ThemeClasses(classes[last.w]) = {ThemeClass(last.ret.val)}

\* C6: title(s) with a string s sets the title to s and returns the window,
\* so that title() would then return s; title() leaves the title as it is
\* and returns it.
C6_TitleIsGetterSetter ==
    last.op = "title" =>
        IF last.arg # <<>>
        THEN last.ret = RetThis /\ titleDom[last.w] = last.arg[1]
        ELSE last.ret = RetStr(<<titleDom[last.w]>>)

\* The state right after a call of _setPos: in move(), in the resize
\* mousemove handler, or in the drag mouseup handler.
SetPosDone ==
    \/ last.op = "move" /\ last.ran = "setPos"
    \/ last.op = "mousemove" /\ last.ran = "resize"
    \/ last.op = "mouseup" /\ last.ran = "drag"

\* C7: every call of _setPos (at drag pointer-up, at each resize pointer-move
\* and in move()) writes six values with width = containerWidth - left - right
\* and height = containerHeight - top - bottom.
C7_SetPosWritesConsistentSix ==
    SetPosDone =>
        LET g == geom[last.w]
        IN  /\ g.width.num = ContainerWidth - g.left.num - g.right.num
            /\ g.height.num = ContainerHeight - g.top.num - g.bottom.num

\* The six values _setPos wrote for w are the measured position.
Committed(w, pos) ==
    geom'[w] = [top |-> Px(pos.top), right |-> Px(pos.right), bottom |-> Px(pos.bottom),
                left |-> Px(pos.left), width |-> Px(pos.width), height |-> Px(pos.height)]

\* C8: for every sequence of pointer events, a drag started by a pointer-down
\* on a window's header is ended by the next pointer-up: after it the measured
\* geometry of the window is committed, its transform is cleared and no
\* surface-wide mousemove/mouseup listener remains.
C8_NextPointerUpEndsDrag ==
    [][last'.op = "mouseup" =>
          \A w \in dragged :
              /\ Committed(w, Measure(w))
              /\ transform'[w] = NoTransform
              /\ surface' = Unregistered]_vars

\* The position of w on the page at the moment of the mouseup: where it is
\* laid out plus its transform, or the zero rectangle the host reports for an
\* element that is not rendered.
OnScreenLeft(w) == IF Displayed(w) THEN RenderedLeft(geom[w]) + TransX(transform[w]) ELSE 0 - ContainerLeft
OnScreenTop(w) == IF Displayed(w) THEN RenderedTop(geom[w]) + TransY(transform[w]) ELSE 0 - ContainerTop

\* The step in which the drag mouseup handler of a window runs.
DragEnds == last'.op = "mouseup" /\ surface.up.kind = "drag"

\* C9 (as stated): the top/left committed at the end of a drag equal the
\* pre-drag top/left plus (pointer at pointer-up - pointer at pointer-down),
\* for every drag, also one with no pointer-move and one whose pointer-up
\* differs from the last pointer-move.
C9_CommitFollowsPointerUp ==
    [][DragEnds =>
          LET c == surface.up
          IN  /\ geom'[c.win].left = Px(RenderedLeft(geom[c.win]) + (last'.p[1] - c.dragStart[1]))
              /\ geom'[c.win].top = Px(RenderedTop(geom[c.win]) + (last'.p[2] - c.dragStart[2]))]_vars

\* C9 (amended): the top/left committed at the end of a drag are the window's
\* on-screen position at the pointer-up, whatever the pointer-up position is:
\* for a rendered window the stored top/left plus the transform in effect,
\* which is (last pointer-move - pointer-down) when the handler's last event
\* was a pointer-move.
C9_CommitFollowsTransform ==
    [][DragEnds =>
          LET c == surface.up
          IN  /\ geom'[c.win].left = Px(OnScreenLeft(c.win))
              /\ geom'[c.win].top = Px(OnScreenTop(c.win))
              /\ (last.op = "mousemove" /\ last.ran = "drag" /\ Displayed(c.win)) =>
                     /\ geom'[c.win].left = Px(RenderedLeft(geom[c.win]) + (last.p[1] - c.dragStart[1]))
                     /\ geom'[c.win].top = Px(RenderedTop(geom[c.win]) + (last.p[2] - c.dragStart[2]))]_vars

\* A drag from (900, 400) to (950, 420) of the window at left 700, top 100,
\* ended by a pointer-up at (400, 300).
C9_Witness ==
    /\ last.op = "mouseup" /\ last.ran = "drag" /\ last.p = <<400, 300>>
    /\ geom[last.w].left = Px(750) /\ geom[last.w].top = Px(120)
    /\ transform[last.w] = NoTransform

Edges == {"top", "right", "bottom", "left"}
EdgeSign(e) == IF e \in {"top", "left"} THEN 1 ELSE -1
EdgeAxis(e) == IF e \in {"left", "right"} THEN 1 ELSE 2
EdgeDim(e) == IF e \in {"left", "right"} THEN "width" ELSE "height"
Smaller(a, b) == IF a < b THEN a ELSE b

\* The resizer called name controls edge e.
ControlsEdge(name, e) == \E i \in 1..Len(Dirs(name)) : Dirs(name)[i] = e

\* The step in which the resize mousemove handler of a window runs.
ResizeMoves == last'.op = "mousemove" /\ surface.move.kind = "resize"

\* C11: on each resize pointer-move every edge the handle controls is applied
\* at min(startOffset + sign * delta, startOffset + startDimension -
\* minDimension), and the applied width and height are
\* containerWidth - left - right and containerHeight - top - bottom.
C11_ResizeAppliesCappedOffsets ==
    [][ResizeMoves =>
          LET c == surface.move
              w == c.win
              start == c.startSize
              delta == <<last'.p[1] - c.dragStart[1], last'.p[2] - c.dragStart[2]>>
          IN  /\ \A e \in Edges :
                     ControlsEdge(c.name, e) =>
                         geom'[w][e] = Px(Smaller(start[e] + EdgeSign(e) * delta[EdgeAxis(e)],
                                                  start[e] + start[EdgeDim(e)] - min[w][EdgeDim(e)]))
              /\ geom'[w].width = Px(ContainerWidth - geom'[w].left.num - geom'[w].right.num)
              /\ geom'[w].height = Px(ContainerHeight - geom'[w].top.num - geom'[w].bottom.num)]_vars

\* C11 witness: minWidth 200, the right handle of the 300px-wide window moved
\* 500px to the left: the width is exactly 200.
C11_Witness ==
    /\ ResizeStepDone
    /\ last.name = "right" /\ last.p[1] - surface.move.dragStart[1] = -500
    /\ surface.move.startSize.width = 300 /\ min[last.w].width = 200
    /\ geom[last.w].width = Px(200)
    /\ geom[last.w].right = Px(surface.move.startSize.right + 100)

\* The windows whose stored geometry or transform a step changes.
Changed == {w \in Win : geom'[w] # geom[w] \/ transform'[w] # transform[w]}

\* No pointer-down has been delivered since the last pointer-up.
NoInteraction == dragged = {} /\ resized = {}

\* C12: at most one interaction is live: the surface's mousemove and mouseup
\* handlers are the pair of one interaction, a pointer-move changes the
\* transform or geometry of at most one window, and with no interaction in
\* progress a pointer-move or pointer-up changes no window.
C12_OneLiveInteraction ==
    [][/\ surface'.move = surface'.up
       /\ last'.op = "mousemove" => Cardinality(Changed) <= 1
       /\ (last'.op \in {"mousemove", "mouseup"} /\ NoInteraction) =>
              /\ Changed = {}
              /\ UNCHANGED <<winVars, min, stackVars, listenerVars>>]_vars

\* C12 witness: both windows got a pointer-down before any pointer-up, and
\* the pointer-move that followed moved only the second one.
C12_Witness ==
    /\ last.op = "mousemove" /\ last.ran = "drag"
    /\ dragged = Win
    /\ transform[last.w] # NoTransform
    /\ \A w \in Win \ {last.w} : transform[w] = NoTransform

\* C13: bringToFront(force) on w changes the counter and w's z-index exactly
\* when force is true or w's z-index is below the counter (then the counter
\* grows by one and w takes the new counter); otherwise both are unchanged;
\* the z-index of every other window is unchanged in every case.
C13_BringToFrontFrame ==
    [][last'.op \in {"bringToFront", "bringToFrontForce"} =>
          LET w == last'.w
              acts == last'.op = "bringToFrontForce" \/ zstyle[w] < zIndex
          IN  /\ acts => zIndex' = zIndex + 1 /\ zstyle'[w] = zIndex'
              /\ ~acts => zIndex' = zIndex /\ zstyle'[w] = zstyle[w]
              /\ \A o \in Win \ {w} : zstyle'[o] = zstyle[o]]_vars

\* C13 witness: an unforced bringToFront of the first of two windows, after
\* which it holds the third value assigned.
C13_Witness ==
    /\ last.op = "bringToFront" /\ last.w = "w1"
    /\ zstyle["w1"] = ZIndexStart + 3 /\ zstyle["w2"] = ZIndexStart + 2
    /\ zIndex = ZIndexStart + 3
    /\ ~inactive["w2"]

AllSixSet(w) == \A i \in 1..Len(Sides) : IsPx(geom[w][Sides[i]])

\* C15: after every update by setList, sizeToContent, completed drags and
\* resize steps, whenever all six geometry fields are set they satisfy
\* width = containerWidth - left - right and
\* height = containerHeight - top - bottom.
C15_SixFieldsConsistent ==
    \A w \in Win :
        AllSixSet(w) =>
            /\ geom[w].width.num = ContainerWidth - geom[w].left.num - geom[w].right.num
            /\ geom[w].height.num = ContainerHeight - geom[w].top.num - geom[w].bottom.num

\* C16: a second pointer-down on the header of a window whose drag is in
\* progress (delivered where the pointer's last event left the pointer) is ignored or starts afresh from a corrected baseline: at the
\* next pointer-move the displayed position (stored position plus transform)
\* moves with the pointer and does not jump, and the position committed at
\* the pointer-up is the pre-drag position plus the pointer's displacement
\* since the first pointer-down.
C16_SecondPointerDownKeepsBaseline ==
    [][/\ (/\ last.op = "headerDown" /\ first[last.w].n = 2
           /\ last'.op = "mousemove" /\ surface.move.kind = "drag" /\ surface.move.win = last.w) =>
              LET w == last.w
              IN  /\ (RenderedLeft(geom'[w]) + TransX(transform'[w])) - (RenderedLeft(geom[w]) + TransX(transform[w]))
                       = last'.p[1] - last.p[1]
                  /\ (RenderedTop(geom'[w]) + TransY(transform'[w])) - (RenderedTop(geom[w]) + TransY(transform[w]))
                       = last'.p[2] - last.p[2]
       /\ (/\ DragEnds /\ first[surface.up.win].n = 2 /\ Displayed(surface.up.win)
           /\ last.op = "mousemove" /\ last.p = last'.p) =>
              LET w == surface.up.win
              IN  /\ geom'[w].left = Px(first[w].left + (last'.p[1] - first[w].p[1]))
                  /\ geom'[w].top = Px(first[w].top + (last'.p[2] - first[w].p[2]))]_vars

\* C17: after move(event, offset) the window's geometry has been rewritten so
\* that the window lies offset pixels from the pointer, to the right of it
\* when the pointer is in the left half of the viewport and to the left
\* otherwise, below it when the pointer is in the top half and above it
\* otherwise, and move returns the window.
C17_MovePlacesWindowByPointer ==
    last.op = "move" =>
        LET w == last.w
            clientX == last.arg[1]
            clientY == last.arg[2]
            offset == last.arg[5]
            box == BoxRect(geom[w], transform[w])
        IN  /\ last.ret = RetThis
            /\ AllSixSet(w)
            /\ IF 2 * clientX < InnerWidth THEN box.left = clientX + offset ELSE box.right = clientX - offset
            /\ IF 2 * clientY < InnerHeight THEN box.top = clientY + offset ELSE box.bottom = clientY - offset

\* The edges each of the eight handles controls.
HandleEdges(name) ==
    CASE name = "top" -> {"top"}
      [] name = "top-right" -> {"top", "right"}
      [] name = "right" -> {"right"}
      [] name = "bottom-right" -> {"bottom", "right"}
      [] name = "bottom" -> {"bottom"}
      [] name = "bottom-left" -> {"bottom", "left"}
      [] name = "left" -> {"left"}
      [] name = "top-left" -> {"top", "left"}

\* A resize pointer-move applies the uncontrolled edges as captured at the
\* pointer-down.
UncontrolledEdgesKept ==
    ResizeMoves =>
        \A e \in Edges \ HandleEdges(surface.move.name) :
            geom'[surface.move.win][e] = Px(surface.move.startSize[e])

\* A resize pointer-move by a handle in hs applies dimension dim as captured
\* at the pointer-down.
DimKept(hs, dim) ==
    (ResizeMoves /\ surface.move.name \in hs) =>
        geom'[surface.move.win][dim] = Px(surface.move.startSize[dim])

\* The pointer-up of a resize changes no geometry field.
ResizeUpKeepsGeometry ==
    (last'.op = "mouseup" /\ surface.up.kind = "resize") => geom' = geom /\ transform' = transform

C19_DragIsPureTranslation ==
    [][/\ (/\ DragEnds /\ Displayed(surface.up.win)
           /\ geom[surface.up.win] = first[surface.up.win].geom) =>
              LET w == surface.up.win
                  before == first[w].geom
              IN  /\ geom'[w].width = Px(RenderedWidth(before))
                  /\ geom'[w].height = Px(RenderedHeight(before))
                  /\ geom'[w].left.num + geom'[w].right.num = ContainerWidth - RenderedWidth(before)
                  /\ geom'[w].top.num + geom'[w].bottom.num = ContainerHeight - RenderedHeight(before)
       /\ last'.op \in {"mousemove", "mouseup"} => zIndex' = zIndex
       /\ last'.op = "headerDown" => zIndex' \in {zIndex, zIndex + 1}]_vars

\* C19 witness: the 300x300 window at left 700, top 100 was dragged by
\* (50, 20) and released.
C19_Witness ==
    /\ last.op = "mouseup" /\ last.ran = "drag"
    /\ geom[last.w] = [top |-> Px(120), right |-> Px(-50), bottom |-> Px(380),
                       left |-> Px(750), width |-> Px(300), height |-> Px(300)]

\* The windows that have been constructed.
Existing == {w \in Win : kind[w] # "none"}

\* C20: through construction, show, hide, bringToFront and drag/resize
\* pointer-downs the registry counter never decreases, every window's
\* z-index is at most the counter and no two windows have the same z-index;
\* hide() changes neither the counter nor any z-index.
C20_RegistryMonotoneAndUnique ==
    [][/\ zIndex' >= zIndex
       /\ \A w \in Win : kind'[w] # "none" => zstyle'[w] <= zIndex'
       /\ \A w, o \in Win : (w # o /\ kind'[w] # "none" /\ kind'[o] # "none") => zstyle'[w] # zstyle'[o]
       /\ last'.op = "hide" => zIndex' = zIndex /\ zstyle' = zstyle]_vars

\* C20 witness: hide() on one of two windows, the other one having been
\* raised twice since its construction.
C20_Witness ==
    /\ last.op = "hide"
    /\ Existing = Win
    /\ zIndex = ZIndexStart + 4
    /\ \E w \in Win : zstyle[w] = zIndex

====
